---- MODULE Spec2Model ----
(***************************************************************************)
(* Model of the telephony gateway's call coordination layer:               *)
(*   CallManager (Call Registry)   services/CallManager.ts 33-372          *)
(*   SIPService  (SIP coordinator) services/CallManager.ts 400-747         *)
(*   RedisService (cache adapter)  services/CallManager.ts 752-1029        *)
(*   DatabaseService (store)       services/DatabaseService.ts             *)
(*                                                                         *)
(* Every async method is a task.  Code between two awaits runs atomically  *)
(* (one JavaScript thread); an awaited store or cache call takes effect    *)
(* at the step that resumes the task, and may fail there.  Call objects    *)
(* live in a heap, because the hot set, the tasks and the notifications    *)
(* share them by reference.                                                *)
(***************************************************************************)
EXTENDS Integers, Sequences, FiniteSets, TLC

\* ---- bounds of the model ----
MaxOps == 3        \* registry operations started in one behaviour
MaxTime == 1       \* largest value of the millisecond clock
MaxFaults == 1     \* store/cache calls that fail in one behaviour

\* ---- values ----
UNDEF == "undefined"      \* a property that is absent (JavaScript undefined)
NULLV == "null"           \* SQL NULL / JavaScript null
NoNum == -1               \* an absent number
NoId == 0                 \* an absent identifier

MaxTasks == MaxOps + 1    \* operations of a client that awaits each reply
TaskIds == 1 .. MaxTasks
ForeignId == MaxTasks + 1 \* an identifier uuidv4 never returned
IdSpace == 1 .. ForeignId
Handles == {1}            \* transport call handles (session.id)

Terminal == {"completed", "failed", "busy", "no_answer"}
Statuses == {"initiated", "ringing", "answered"} \cup Terminal

\* A Date object and the ISO string JSON.stringify turns it into.
DateAt(t) == [kind |-> "Date", t |-> t]
IsoString(d) == [kind |-> "string", t |-> d.t]
NoDate == [kind |-> UNDEF, t |-> NoNum]

NoCall ==
  [id |-> NoId, clientId |-> UNDEF, phoneNumber |-> UNDEF, direction |-> UNDEF,
   status |-> UNDEF, duration |-> NoNum, createdAt |-> NoDate, updatedAt |-> NoDate]

NoRow ==
  [id |-> NoId, client_id |-> NULLV, phone_number |-> UNDEF, direction |-> UNDEF,
   status |-> UNDEF, duration |-> NoNum, created_at |-> NoNum, updated_at |-> NoNum]

\* Partial<Call> as the callers of createCall build it: an absent property
\* carries the absent value of its type.
Draft(id, clientId, phoneNumber, direction, status, duration) ==
  [id |-> id, clientId |-> clientId, phoneNumber |-> phoneNumber,
   direction |-> direction, status |-> status, duration |-> duration]

\* Request bodies schemas.createCall accepts: clientId?, phoneNumber, direction.
HttpDrafts ==
  { Draft(NoId, UNDEF, "+79990000001", "incoming", UNDEF, NoNum),
    Draft(NoId, "client-1", "+79990000002", "outgoing", UNDEF, NoNum) }

\* The draft SIPService.handleIncomingCall passes.
SipDraft(from) == Draft(NoId, UNDEF, from, "incoming", "initiated", NoNum)

\* Partial<Call> drafts that carry Call's own fields (createCall's declared
\* parameter type allows them): an identifier, a status, a duration.
ApiDrafts(known) ==
  { Draft(i, UNDEF, "+79990000001", "incoming", UNDEF, NoNum) : i \in known \cup {ForeignId} }
    \cup { Draft(i, UNDEF, "+79990000001", "incoming", "completed", 5) : i \in {NoId, ForeignId} }

\* Statuses PATCH /:id/status is driven with (ringing comes from the SIP side).
StatusInputs == {"answered", "completed", "failed"}

\* Bodies of POST /:id/end (schemas.endCall: duration required, no status)
\* and the fields SIPService passes on Terminated (duration and status).
EndData(status, duration) == [status |-> status, duration |-> duration]
HttpEndData == { EndData(UNDEF, 7) }

VARIABLES
  tasks,        \* the async invocations, in arrival order
  heap,         \* Call objects, by the task that allocated them
  activeCalls,  \* CallManager.activeCalls: identifier -> object reference
  cache,        \* Redis: key call:<id> -> JSON text of a Call
  db,           \* table calls: a set of rows
  now,          \* the wall clock new Date() reads
  faults,       \* store/cache failures so far
  emitted,      \* notifications emitted by CallManager, in order
  sipCalls,     \* SIPService.activeCalls: handle -> SIPCall
  listeners,    \* stateChange listener of a session: the callId it closes over
  sess,         \* the transport's session state per handle
  observed,     \* the session states the listener has handled, in order
  activeSIPCalls, \* SIPHandler.activeSIPCalls: handle -> SIPCall
  handlerOf,    \* the SIPHandler handle a Registry invocation was made for
  rejected,     \* SIPHandler handlers that threw before their first await
  stop,         \* SIPService.stop: where it is, and the handle whose bye() it awaits
  reap,         \* SIPHandler.cleanupInactiveCalls / shutdown: where it is, and the endCall it awaits
  sockets,      \* socket.io connections: open until their disconnect, then closed
  activeConnections,  \* WebRTCHandler.activeConnections: connection id -> WebRTCConnection
  socketToConnection, \* WebRTCHandler.socketToConnection: socket -> connection id
  rooms,        \* socket.io rooms: pairs <<room, socket>>
  wire,         \* what the last signalling handler step emitted to sockets (to 0: the error log)
  joinOf,       \* the socket whose join-call awaits a getCall invocation
  lastEvent,    \* the last socket event handled, and how many were
  stasks,       \* the invocations of the session methods, in arrival order
  sheap,        \* CallSession objects, by the invocation that allocated them
  activeSessions, \* CallManager.activeSessions: session id -> object reference, insertion stamp
  sessionCache, \* Redis: key session:<id> -> JSON text of a CallSession
  sessionEvents, \* session notifications emitted by CallManager, in order
  serial        \* TRUE: every operation is awaited before the next is requested

vars ==
  <<tasks, heap, activeCalls, cache, db, now, faults, emitted,
    sipCalls, listeners, sess, observed, activeSIPCalls, handlerOf, rejected, stop, reap,
    sockets, activeConnections, socketToConnection, rooms, wire, joinOf, lastEvent,
    stasks, sheap, activeSessions, sessionCache, sessionEvents, serial>>

sipVars == <<sipCalls, listeners, sess, observed>>
handlerVars == <<activeSIPCalls, handlerOf, rejected>>
callVars == <<tasks, heap, activeCalls, cache, db, now, faults, emitted, serial>>

\* What the Registry, the SIP listener and the SIPHandler handlers leave alone.
rtcVars ==
  <<sockets, activeConnections, socketToConnection, rooms, wire, joinOf, lastEvent>>
sessVars == <<stasks, sheap, activeSessions, sessionCache, sessionEvents>>
restVars == <<stop, reap, rtcVars, sessVars>>

\* No entry of SIPHandler.activeSIPCalls.  An entry carries the SIPCall's id
\* (the transport's own until the Call is linked), status and startTime, and
\* owner, the createCall invocation whose handler holds the object.
NoSipCall == [id |-> NoId, status |-> UNDEF, startTime |-> NoNum, owner |-> 0]

NoSip == [status |-> UNDEF, startTime |-> NoNum]

NoTask ==
  [op |-> "none", pc |-> "done", id |-> NoId, status |-> UNDEF, endData |-> EndData(UNDEF, NoNum),
   draft |-> Draft(NoId, UNDEF, UNDEF, UNDEF, UNDEF, NoNum),
   ref |-> 0, cval |-> NoCall, sip |-> 0,
   oldStatus |-> UNDEF, res |-> "pending", err |-> "none", ret |-> NoCall,
   pre |-> NoCall, preRow |-> NoRow, preView |-> NoCall, solo |-> FALSE,
   cacheWrites |-> 0]


\* ---- pure functions of the code ----

\* new Date(): the clock's value now.
NewDate == DateAt(now)

\* uuidv4() for the t-th invocation: a value no other invocation gets.
Uuidv4(t) == t

\* { ...defaults, ...callData }: every property callData has wins.
Spread(defaults, callData) ==
  [id |-> IF callData.id # NoId THEN callData.id ELSE defaults.id,
   clientId |-> IF callData.clientId # UNDEF THEN callData.clientId ELSE defaults.clientId,
   phoneNumber |-> callData.phoneNumber,
   direction |-> callData.direction,
   status |-> IF callData.status # UNDEF THEN callData.status ELSE defaults.status,
   duration |-> IF callData.duration # NoNum THEN callData.duration ELSE defaults.duration,
   createdAt |-> defaults.createdAt,
   updatedAt |-> defaults.updatedAt]

\* The Call object createCall builds; the two new Date() read the clock at
\* created and at updated.
NewCall(t, callData, created, updated) ==
  Spread([id |-> Uuidv4(t), clientId |-> UNDEF, phoneNumber |-> callData.phoneNumber,
          direction |-> callData.direction, status |-> "initiated", duration |-> 0,
          createdAt |-> DateAt(created), updatedAt |-> DateAt(updated)],
         callData)

\* JSON.stringify(call): Dates become ISO strings, absent properties stay absent.
JsonStringify(call) ==
  [call EXCEPT !.createdAt = IsoString(call.createdAt),
               !.updatedAt = IsoString(call.updatedAt)]

\* JSON.parse(text): the properties as written; strings stay strings.
JsonParse(text) == text

\* Object.assign(call, endData) followed by status = 'completed' and
\* updatedAt = new Date()  (endCall).
AssignEnd(call, endData) ==
  [call EXCEPT !.duration = IF endData.duration # NoNum THEN endData.duration ELSE @,
               !.status = "completed",
               !.updatedAt = NewDate]

\* call.status = status; call.updatedAt = new Date()  (updateCallStatus).
AssignStatus(call, status) ==
  [call EXCEPT !.status = status, !.updatedAt = NewDate]

\* ---- DatabaseService ----
DbRows(rows, id) == { r \in rows : r.id = id }
DbHas(rows, id) == DbRows(rows, id) # {}
DbRow(rows, id) == IF DbHas(rows, id) THEN CHOOSE r \in rows : r.id = id ELSE NoRow

\* INSERT INTO calls: the values createCall binds (x || null for optionals).
RowOfCall(call) ==
  [id |-> call.id,
   client_id |-> IF call.clientId = UNDEF THEN NULLV ELSE call.clientId,
   phone_number |-> call.phoneNumber, direction |-> call.direction,
   status |-> call.status, duration |-> call.duration,
   created_at |-> call.createdAt.t, updated_at |-> call.updatedAt.t]

\* Mutant: the table has no primary key.
DbInsertOkNoKey(rows, call) == TRUE

\* id UUID PRIMARY KEY: the insert is refused when a row has the identifier.
DbInsertOk(rows, call) == ~ DbHas(rows, call.id)
DbInsert(rows, call) == rows \cup {RowOfCall(call)}

\* SELECT ... WHERE id = $1, mapped to a Call (getCall).
CallOfRow(row) ==
  [id |-> row.id, clientId |-> row.client_id, phoneNumber |-> row.phone_number,
   direction |-> row.direction, status |-> row.status, duration |-> row.duration,
   createdAt |-> DateAt(row.created_at), updatedAt |-> DateAt(row.updated_at)]

\* UPDATE calls SET <the defined fields>, updated_at = now WHERE id = $n.
UpdatedRow(row, updates) ==
  [row EXCEPT !.status = IF updates.status # UNDEF THEN updates.status ELSE @,
              !.duration = IF updates.duration # NoNum THEN updates.duration ELSE @,
              !.updated_at = now]
DbUpdate(rows, id, updates) ==
  { IF r.id = id THEN UpdatedRow(r, updates) ELSE r : r \in rows }

\* ---- helpers over the state ----
AllDone == \A x \in 1 .. Len(tasks) : tasks[x].pc = "done"

\* A further operation may be requested.
CanStart ==
  IF serial THEN AllDone /\ Len(tasks) < MaxTasks ELSE Len(tasks) < MaxOps

Min(a, b) == IF a < b THEN a ELSE b

\* What getActiveCalls returns: the objects of the hot set.
getActiveCalls == { heap[activeCalls[i]] : i \in { j \in IdSpace : activeCalls[j] # 0 } }

\* What an undisturbed getCall(id) returns in this state: hot set, then
\* cache, then store (CallManager.getCall).
View(id) ==
  IF activeCalls[id] # 0 THEN heap[activeCalls[id]]
  ELSE IF cache[id] # NoCall THEN JsonParse(cache[id])
  ELSE IF DbHas(db, id) THEN CallOfRow(DbRow(db, id))
  ELSE NoCall

\* Objects nothing refers to any more are dropped from the heap.
Gc(h, ac, ts) ==
  LET live == { ac[i] : i \in IdSpace } \cup
              { ts[x].ref : x \in { y \in 1 .. Len(ts) : ts[y].pc # "done" } }
  IN  [r \in TaskIds |-> IF r \in live THEN h[r] ELSE NoCall]

Commit(nt, nh, na) ==
  /\ UNCHANGED serial
  /\ tasks' = nt
  /\ activeCalls' = na
  /\ heap' = Gc(nh, na, nt)

Fault == faults < MaxFaults /\ faults' = faults + 1

Fail(tk, err) == [tk EXCEPT !.pc = "done", !.res = "error", !.err = err, !.ref = 0]

Return(tk, call) == [tk EXCEPT !.pc = "done", !.res = "ok", !.ret = call, !.ref = 0]

NewTask(op, id) ==
  [NoTask EXCEPT !.op = op, !.id = id, !.pc = "g_cache", !.solo = AllDone,
                 !.preRow = DbRow(db, id), !.preView = View(id)]

\* Mutant: endCall does not test what getCall returned and hands null on.
ContTaskNullOk(tk, r, h) ==
  CASE tk.op = "getCall" -> Return(tk, IF r = 0 THEN NoCall ELSE h[r])
    [] tk.op = "updateCallStatus" ->
         IF r = 0 THEN Fail(tk, "notfound")
         ELSE [tk EXCEPT !.pc = "u_db", !.ref = r, !.oldStatus = h[r].status, !.pre = h[r]]
    [] tk.op = "endCall" ->
         IF r = 0 THEN Return(tk, NoCall)
         ELSE [tk EXCEPT !.pc = "e_db", !.ref = r, !.pre = h[r]]

\* ---- the caller's code after "await this.getCall(callId)" returned the
\* ---- object r (0: null), up to its next await
ContTask(tk, r, h) ==
  CASE tk.op = "getCall" -> Return(tk, IF r = 0 THEN NoCall ELSE h[r])
    [] tk.op = "updateCallStatus" ->
         IF r = 0 THEN Fail(tk, "notfound")
         ELSE [tk EXCEPT !.pc = "u_db", !.ref = r, !.oldStatus = h[r].status, !.pre = h[r]]
    [] tk.op = "endCall" ->
         IF r = 0 THEN Fail(tk, "notfound")
         ELSE [tk EXCEPT !.pc = "e_db", !.ref = r, !.pre = h[r]]

ContHeap(tk, r, h) ==
  IF r = 0 THEN h
  ELSE CASE tk.op = "getCall" -> h
         [] tk.op = "updateCallStatus" -> [h EXCEPT ![r] = AssignStatus(h[r], tk.status)]
         [] tk.op = "endCall" -> [h EXCEPT ![r] = AssignEnd(h[r], tk.endData)]

\* ---- CallManager.getCall, entered by getCall, updateCallStatus and endCall
\* The synchronous part: hot-set lookup, else redis.get is awaited.
Begin(tk) ==
  /\ CanStart
  /\ LET r == activeCalls[tk.id] IN
       IF r # 0
       THEN Commit(Append(tasks, ContTask(tk, r, heap)), ContHeap(tk, r, heap), activeCalls)
       ELSE Commit(Append(tasks, tk), heap, activeCalls)

\* redis.get returned: a hit is parsed and put in the hot set.
GetCache(t) ==
  /\ tasks[t].pc = "g_cache"
  /\ UNCHANGED <<cache, db, now, emitted, sipVars>>
  /\ LET tk == tasks[t] IN
     \/ /\ Fault
        /\ Commit([tasks EXCEPT ![t] = Fail(tk, "cache")], heap, activeCalls)
     \/ /\ UNCHANGED faults
        /\ IF cache[tk.id] # NoCall
           THEN LET h1 == [heap EXCEPT ![t] = JsonParse(cache[tk.id])] IN
                Commit([tasks EXCEPT ![t] = ContTask(tk, t, h1)], ContHeap(tk, t, h1),
                       [activeCalls EXCEPT ![tk.id] = t])
           ELSE Commit([tasks EXCEPT ![t] = [tk EXCEPT !.pc = "g_db"]], heap, activeCalls)

\* databaseService.getCall returned: a row is mapped to a Call and
\* redis.set is awaited.
GetDb(t) ==
  /\ tasks[t].pc = "g_db"
  /\ UNCHANGED <<cache, db, now, emitted, sipVars>>
  /\ LET tk == tasks[t] IN
     \/ /\ Fault
        /\ Commit([tasks EXCEPT ![t] = Fail(tk, "persistence")], heap, activeCalls)
     \/ /\ UNCHANGED faults
        /\ IF DbHas(db, tk.id)
           THEN LET call == CallOfRow(DbRow(db, tk.id)) IN
                Commit([tasks EXCEPT ![t] = [tk EXCEPT !.pc = "g_set", !.ref = t,
                                                       !.cval = JsonStringify(call)]],
                       [heap EXCEPT ![t] = call], activeCalls)
           ELSE Commit([tasks EXCEPT ![t] = ContTask(tk, 0, heap)], heap, activeCalls)

\* Mutant: the Call loaded from the store is not put in the hot set.
GetSetNoHot(t) ==
  /\ tasks[t].pc = "g_set"
  /\ UNCHANGED <<db, now, emitted, sipVars>>
  /\ LET tk == tasks[t] IN
     \/ /\ Fault
        /\ UNCHANGED cache
        /\ Commit([tasks EXCEPT ![t] = Fail(tk, "cache")], heap, activeCalls)
     \/ /\ UNCHANGED faults
        /\ cache' = [cache EXCEPT ![tk.id] = tk.cval]
        /\ LET tk1 == [tk EXCEPT !.cacheWrites = @ + 1, !.cval = NoCall] IN
           Commit([tasks EXCEPT ![t] = ContTask(tk1, tk.ref, heap)],
                  ContHeap(tk1, tk.ref, heap), activeCalls)

\* redis.set returned: the Call loaded from the store enters the hot set.
GetSet(t) ==
  /\ tasks[t].pc = "g_set"
  /\ UNCHANGED <<db, now, emitted, sipVars>>
  /\ LET tk == tasks[t] IN
     \/ /\ Fault
        /\ UNCHANGED cache
        /\ Commit([tasks EXCEPT ![t] = Fail(tk, "cache")], heap, activeCalls)
     \/ /\ UNCHANGED faults
        /\ cache' = [cache EXCEPT ![tk.id] = tk.cval]
        /\ LET tk1 == [tk EXCEPT !.cacheWrites = @ + 1, !.cval = NoCall] IN
           Commit([tasks EXCEPT ![t] = ContTask(tk1, tk.ref, heap)],
                  ContHeap(tk1, tk.ref, heap),
                  [activeCalls EXCEPT ![tk.id] = tk.ref])

Notify(kind, id, old, new) == [kind |-> kind, id |-> id, oldStatus |-> old, newStatus |-> new]

\* ---- CallManager.updateCallStatus ----
\* databaseService.updateCall(callId, {status}) returned; redis.set of the
\* object as it reads now is awaited.
UpdateDb(t) ==
  /\ tasks[t].pc = "u_db"
  /\ UNCHANGED <<cache, now, emitted, sipVars>>
  /\ LET tk == tasks[t] IN
     \/ /\ Fault
        /\ UNCHANGED db
        /\ Commit([tasks EXCEPT ![t] = Fail(tk, "persistence")], heap, activeCalls)
     \/ /\ UNCHANGED faults
        /\ db' = DbUpdate(db, tk.id, EndData(tk.status, NoNum))
        /\ Commit([tasks EXCEPT ![t] =
                     IF DbHas(db, tk.id)
                     THEN [tk EXCEPT !.pc = "u_cache", !.cval = JsonStringify(heap[tk.ref])]
                     ELSE Fail(tk, "persistence")],
                  heap, activeCalls)

\* Mutant: the cache is not refreshed after the store write.
UpdateCacheSkipSet(t) ==
  /\ tasks[t].pc = "u_cache"
  /\ UNCHANGED <<db, now, sipVars>>
  /\ LET tk == tasks[t] IN
     \/ /\ Fault
        /\ UNCHANGED <<cache, emitted>>
        /\ Commit([tasks EXCEPT ![t] = Fail(tk, "cache")], heap, activeCalls)
     \/ /\ UNCHANGED <<faults, cache>>
        /\ emitted' = Append(emitted, Notify("call:statusUpdated", tk.id, tk.oldStatus, tk.status))
        /\ Commit([tasks EXCEPT ![t] = Return([tk EXCEPT !.cval = NoCall], heap[tk.ref])],
                  heap, [activeCalls EXCEPT ![tk.id] = tk.ref])

\* redis.set returned: hot set, notification, return.
UpdateCache(t) ==
  /\ tasks[t].pc = "u_cache"
  /\ UNCHANGED <<db, now, sipVars>>
  /\ LET tk == tasks[t] IN
     \/ /\ Fault
        /\ UNCHANGED <<cache, emitted>>
        /\ Commit([tasks EXCEPT ![t] = Fail(tk, "cache")], heap, activeCalls)
     \/ /\ UNCHANGED faults
        /\ cache' = [cache EXCEPT ![tk.id] = tk.cval]
        /\ emitted' = Append(emitted, Notify("call:statusUpdated", tk.id, tk.oldStatus, tk.status))
        /\ Commit([tasks EXCEPT ![t] =
                     Return([tk EXCEPT !.cacheWrites = @ + 1, !.cval = NoCall], heap[tk.ref])],
                  heap, [activeCalls EXCEPT ![tk.id] = tk.ref])

\* ---- CallManager.endCall ----
\* databaseService.updateCall(callId, endData) returned; redis.del is awaited.
EndDb(t) ==
  /\ tasks[t].pc = "e_db"
  /\ UNCHANGED <<cache, now, emitted, sipVars>>
  /\ LET tk == tasks[t] IN
     \/ /\ Fault
        /\ UNCHANGED db
        /\ Commit([tasks EXCEPT ![t] = Fail(tk, "persistence")], heap, activeCalls)
     \/ /\ UNCHANGED faults
        /\ db' = DbUpdate(db, tk.id, tk.endData)
        /\ Commit([tasks EXCEPT ![t] =
                     IF DbHas(db, tk.id) THEN [tk EXCEPT !.pc = "e_del"]
                     ELSE Fail(tk, "persistence")],
                  heap, activeCalls)

\* Mutant: the ended Call stays in the hot set.
EndDelKeepHot(t) ==
  /\ tasks[t].pc = "e_del"
  /\ UNCHANGED <<db, now, sipVars>>
  /\ LET tk == tasks[t] IN
     \/ /\ Fault
        /\ UNCHANGED <<cache, emitted>>
        /\ Commit([tasks EXCEPT ![t] = Fail(tk, "cache")], heap, activeCalls)
     \/ /\ UNCHANGED faults
        /\ cache' = [cache EXCEPT ![tk.id] = NoCall]
        /\ emitted' = Append(emitted, Notify("call:ended", tk.id, UNDEF, heap[tk.ref].status))
        /\ Commit([tasks EXCEPT ![t] = Return(tk, heap[tk.ref])], heap, activeCalls)

\* redis.del returned: the Call leaves the hot set, notification, return.
EndDel(t) ==
  /\ tasks[t].pc = "e_del"
  /\ UNCHANGED <<db, now, sipVars>>
  /\ LET tk == tasks[t] IN
     \/ /\ Fault
        /\ UNCHANGED <<cache, emitted>>
        /\ Commit([tasks EXCEPT ![t] = Fail(tk, "cache")], heap, activeCalls)
     \/ /\ UNCHANGED faults
        /\ cache' = [cache EXCEPT ![tk.id] = NoCall]
        /\ emitted' = Append(emitted, Notify("call:ended", tk.id, UNDEF, heap[tk.ref].status))
        /\ Commit([tasks EXCEPT ![t] = Return(tk, heap[tk.ref])],
                  heap, [activeCalls EXCEPT ![tk.id] = 0])

\* ---- CallManager.createCall ----
\* The rest of SIPService.handleIncomingCall once createCall settled for
\* handle h: setupSessionHandlers(invitation, call.id), or invitation.reject().
SipAfterCreate(tk, ok) ==
  IF tk.sip = 0 THEN UNCHANGED sipVars
  ELSE /\ UNCHANGED <<sipCalls, observed>>
       /\ listeners' = IF ok THEN [listeners EXCEPT ![tk.sip] = tk.id] ELSE listeners
       /\ sess' = IF ~ ok /\ sess[tk.sip] = "Initial"
                  THEN [sess EXCEPT ![tk.sip] = "Terminated"] ELSE sess

\* Mutant: the Call enters the hot set before the store write is awaited.
StartCreateHotFirst(callData, h) ==
  /\ CanStart
  /\ UNCHANGED <<cache, db, faults, emitted>>
  /\ \E updated \in now .. Min(now + 1, MaxTime) :
       LET t == Len(tasks) + 1
           call == NewCall(t, callData, now, updated)
           tk == [NewTask("createCall", call.id) EXCEPT
                    !.pc = "c_db", !.draft = callData, !.ref = t, !.sip = h]
       IN  /\ now' = updated
           /\ Commit(Append(tasks, tk), [heap EXCEPT ![t] = call],
                     [activeCalls EXCEPT ![call.id] = t])

\* The synchronous part: the Call object is built, databaseService.createCall
\* is awaited.  The clock may tick between the two new Date().
StartCreate(callData, h) ==
  /\ CanStart
  /\ UNCHANGED <<cache, db, faults, emitted>>
  /\ \E updated \in now .. Min(now + 1, MaxTime) :
       LET t == Len(tasks) + 1
           call == NewCall(t, callData, now, updated)
           tk == [NewTask("createCall", call.id) EXCEPT
                    !.pc = "c_db", !.draft = callData, !.ref = t, !.sip = h]
       IN  /\ now' = updated
           /\ Commit(Append(tasks, tk), [heap EXCEPT ![t] = call], activeCalls)

\* databaseService.createCall returned; redis.set is awaited.
CreateDb(t) ==
  /\ tasks[t].pc = "c_db"
  /\ UNCHANGED <<cache, now, emitted>>
  /\ LET tk == tasks[t] IN
     \/ /\ Fault
        /\ UNCHANGED db
        /\ SipAfterCreate(tk, FALSE)
        /\ Commit([tasks EXCEPT ![t] = Fail(tk, "persistence")], heap, activeCalls)
     \/ /\ UNCHANGED faults
        /\ IF DbInsertOk(db, heap[tk.ref])
           THEN /\ db' = DbInsert(db, heap[tk.ref])
                /\ UNCHANGED sipVars
                /\ Commit([tasks EXCEPT ![t] =
                             [tk EXCEPT !.pc = "c_cache", !.cval = JsonStringify(heap[tk.ref])]],
                          heap, activeCalls)
           ELSE /\ UNCHANGED db
                /\ SipAfterCreate(tk, FALSE)
                /\ Commit([tasks EXCEPT ![t] = Fail(tk, "persistence")], heap, activeCalls)

\* redis.set returned: hot set, notification, return.
CreateCache(t) ==
  /\ tasks[t].pc = "c_cache"
  /\ UNCHANGED <<db, now>>
  /\ LET tk == tasks[t] IN
     \/ /\ Fault
        /\ UNCHANGED <<cache, emitted>>
        /\ SipAfterCreate(tk, FALSE)
        /\ Commit([tasks EXCEPT ![t] = Fail(tk, "cache")], heap, activeCalls)
     \/ /\ UNCHANGED faults
        /\ cache' = [cache EXCEPT ![tk.id] = tk.cval]
        /\ emitted' = Append(emitted, Notify("call:created", tk.id, UNDEF, heap[tk.ref].status))
        /\ SipAfterCreate(tk, TRUE)
        /\ Commit([tasks EXCEPT ![t] =
                     Return([tk EXCEPT !.cacheWrites = @ + 1, !.cval = NoCall], heap[tk.ref])],
                  heap, [activeCalls EXCEPT ![tk.id] = tk.ref])

\* ---- the HTTP surface (routes/calls.ts) ----
\* Identifiers createCall has returned.
ReturnedIds ==
  { tasks[x].ret.id :
      x \in { y \in 1 .. Len(tasks) : tasks[y].op = "createCall" /\ tasks[y].res = "ok" } }

\* Identifiers a client can name: those it was given, and one nobody created.
TargetIds == ReturnedIds \cup {ForeignId}

\* POST /calls
HttpCreate ==
  /\ UNCHANGED <<handlerVars, restVars>>
  /\ \E callData \in HttpDrafts : StartCreate(callData, 0)
  /\ UNCHANGED sipVars

\* GET /calls/:id
HttpGet ==
  /\ UNCHANGED <<handlerVars, restVars>>
  /\ \E id \in TargetIds : Begin([NewTask("getCall", id) EXCEPT !.pc = "g_cache"])
  /\ UNCHANGED <<cache, db, now, faults, emitted, sipVars>>

\* PATCH /calls/:id/status
HttpUpdate ==
  /\ UNCHANGED <<handlerVars, restVars>>
  /\ \E id \in TargetIds, status \in StatusInputs :
       Begin([NewTask("updateCallStatus", id) EXCEPT !.status = status])
  /\ UNCHANGED <<cache, db, now, faults, emitted, sipVars>>

\* POST /calls/:id/end
HttpEnd ==
  /\ UNCHANGED <<handlerVars, restVars>>
  /\ \E id \in TargetIds, endData \in HttpEndData :
       Begin([NewTask("endCall", id) EXCEPT !.endData = endData])
  /\ UNCHANGED <<cache, db, now, faults, emitted, sipVars>>

\* createCall called with a Partial<Call> that carries Call's own fields.
ApiCreate ==
  /\ UNCHANGED <<handlerVars, restVars>>
  /\ \E callData \in ApiDrafts(ReturnedIds) : StartCreate(callData, 0)
  /\ UNCHANGED sipVars

\* ---- SIPService ----
MsPerSecond == 1000

\* The session states sip.js reports after s.
SessionNext(s) ==
  CASE s = "Initial" -> {"Establishing", "Terminated"}
    [] s = "Establishing" -> {"Established", "Terminated"}
    [] s = "Established" -> {"Terminated"}
    [] OTHER -> {}

\* userAgent.delegate.onInvite -> handleIncomingCall, up to "await createCall"
\* (a stopped user agent delivers no invite).
SipInvite(h) ==
  /\ stop.state \in {"running", "bye"}
  /\ sess[h] = "none"
  /\ sess' = [sess EXCEPT ![h] = "Initial"]
  /\ sipCalls' = [sipCalls EXCEPT ![h] = [status |-> "initiated", startTime |-> now]]
  /\ UNCHANGED <<listeners, observed, handlerVars, restVars>>
  /\ StartCreate(SipDraft("+79990000001"), h)

\* A state change no listener hears: none is registered before createCall
\* has returned.
SipStateUnheard(h) ==
  /\ listeners[h] = 0 \/ sipCalls[h] = NoSip
  /\ \E st \in SessionNext(sess[h]) : sess' = [sess EXCEPT ![h] = st]
  /\ UNCHANGED <<tasks, heap, activeCalls, cache, db, now, faults, emitted,
                 sipCalls, listeners, observed, handlerVars, restVars, serial>>

\* session.stateChange listener (setupSessionHandlers): Establishing and
\* Established call updateCallStatus, Terminated calls endCall and forgets
\* the handle.  None of the calls is awaited.
SipStateChange(h) ==
  /\ listeners[h] # 0 /\ sipCalls[h] # NoSip
  /\ UNCHANGED <<cache, db, now, faults, emitted, listeners, handlerVars, restVars>>
  /\ \E st \in SessionNext(sess[h]) :
       /\ sess' = [sess EXCEPT ![h] = st]
       /\ observed' = [observed EXCEPT ![h] = Append(@, st)]
       /\ IF st = "Terminated"
          THEN /\ sipCalls' = [sipCalls EXCEPT ![h] = NoSip]
               /\ Begin([NewTask("endCall", listeners[h]) EXCEPT
                           !.sip = h,
                           !.endData = EndData("completed",
                                               (now - sipCalls[h].startTime) \div MsPerSecond)])
          ELSE /\ sipCalls' = [sipCalls EXCEPT ![h].status =
                                 IF st = "Establishing" THEN "ringing" ELSE "answered"]
               /\ Begin([NewTask("updateCallStatus", listeners[h]) EXCEPT
                           !.sip = h,
                           !.status = IF st = "Establishing" THEN "ringing" ELSE "answered"])

\* ---- SIPService.stop ----
\* state: running, bye (awaiting bye() of handle h), stopped, failed;
\* live: the handles that had a SIPCall when stop was called.
NoStop == [state |-> "running", h |-> 0, live |-> {}]

\* The next entry of activeCalls the loop of stop visits after handle h.
StopNext(h) ==
  LET live == { x \in Handles : x > h /\ sipCalls[x] # NoSip }
  IN  IF live = {} THEN 0 ELSE CHOOSE x \in live : \A y \in live : x <= y

\* The loop of stop, run on from handle h to its next await: endCall(callId,
\* 'service_stop') awaits session.bye(), which sip.js refuses for a session
\* that is not Established; stop rethrows.  With no entry left stop goes on
\* to unregister and userAgent.stop and returns.
StopLoop(h, live) ==
  LET x == StopNext(h) IN
  IF x = 0 THEN [state |-> "stopped", h |-> 0, live |-> live]
  ELSE IF sess[x] = "Established" THEN [state |-> "bye", h |-> x, live |-> live]
  ELSE [state |-> "failed", h |-> x, live |-> live]

\* stop() is called.
SipStop ==
  /\ stop.state = "running"
  /\ stop' = StopLoop(0, { h \in Handles : sipCalls[h] # NoSip })
  /\ UNCHANGED <<callVars, sipVars, handlerVars, reap, rtcVars, sessVars>>

\* bye() has resolved, the session being Terminated: the loop goes on.
SipStopResume ==
  /\ stop.state = "bye"
  /\ sess[stop.h] = "Terminated"
  /\ stop' = StopLoop(stop.h, stop.live)
  /\ UNCHANGED <<callVars, sipVars, handlerVars, reap, rtcVars, sessVars>>

\* ---- SIPHandler ----
\* handleIncomingCall, up to "await createCall": the SIPCall is filed under
\* the transport's handle, whatever was filed there.
HandlerIncoming(h) ==
  /\ activeSIPCalls' =
       [activeSIPCalls EXCEPT ![h] = [id |-> ForeignId, status |-> "initiated",
                                      startTime |-> now, owner |-> Len(tasks) + 1]]
  /\ handlerOf' = [handlerOf EXCEPT ![Len(tasks) + 1] = h]
  /\ UNCHANGED <<rejected, sipVars, restVars>>
  /\ StartCreate(SipDraft("+79990000001"), 0)

\* A handler that finds no SIPCall for the handle throws; its catch rethrows.
HandlerThrow(op, h) ==
  /\ rejected' = rejected \cup {[op |-> op, h |-> h]}
  /\ UNCHANGED <<tasks, heap, activeCalls, cache, db, now, faults, emitted,
                 sipVars, restVars, activeSIPCalls, handlerOf, serial>>

\* handleCallAnswered, up to "await updateCallStatus(sipCall.id, 'answered')".
HandlerAnswered(h) ==
  IF activeSIPCalls[h] = NoSipCall
  THEN HandlerThrow("handleCallAnswered", h)
  ELSE /\ activeSIPCalls' = [activeSIPCalls EXCEPT ![h].status = "answered"]
       /\ handlerOf' = [handlerOf EXCEPT ![Len(tasks) + 1] = h]
       /\ UNCHANGED <<cache, db, now, faults, emitted, sipVars, restVars, rejected>>
       /\ Begin([NewTask("updateCallStatus", activeSIPCalls[h].id) EXCEPT !.status = "answered"])

\* handleCallEnded (status completed) and handleCallError (status failed), up
\* to "await endCall(sipCall.id, {duration, status})".
\* The SIPCall of handle h is marked and endCall is called for sipCall.id.
EndEntry(h, status) ==
  /\ activeSIPCalls' = [activeSIPCalls EXCEPT ![h].status = status]
  /\ handlerOf' = [handlerOf EXCEPT ![Len(tasks) + 1] = h]
  /\ UNCHANGED <<cache, db, now, faults, emitted, sipVars, rejected>>
  /\ Begin([NewTask("endCall", activeSIPCalls[h].id) EXCEPT
              !.endData = EndData(status,
                                  (now - activeSIPCalls[h].startTime) \div MsPerSecond)])

HandlerEnd(op, h, status) ==
  IF activeSIPCalls[h] = NoSipCall
  THEN HandlerThrow(op, h)
  ELSE EndEntry(h, status) /\ UNCHANGED restVars

\* handleCallEnded(sipCallId, reason)
HandlerEnded(h) ==
  /\ h \in Handles
  /\ HandlerEnd("handleCallEnded", h, "completed")

\* handleCallError(sipCallId, errorCode, errorMessage)
HandlerError(h) ==
  /\ h \in Handles
  /\ HandlerEnd("handleCallError", h, "failed")

\* ---- the environment ----
\* The clock advances.
Tick ==
  /\ now < MaxTime
  /\ now' = now + 1
  /\ UNCHANGED <<tasks, heap, activeCalls, cache, db, faults, emitted, sipVars, handlerVars, restVars, serial>>

\* A cache entry expires (every entry is written with a TTL of 3600 s, far
\* longer than an operation takes: entries expire between operations).
CacheExpire ==
  /\ AllDone
  /\ \E id \in IdSpace : cache[id] # NoCall /\ cache' = [cache EXCEPT ![id] = NoCall]
  /\ UNCHANGED <<tasks, heap, activeCalls, db, now, faults, emitted, sipVars, handlerVars, restVars, serial>>

\* The handlers' code after their await, for the task that returned in this
\* step: handleIncomingCall links the Call into its SIPCall object,
\* handleCallEnded and handleCallError delete the handle's entry; a rejected
\* await is rethrown and leaves the map alone.
HandlerSettle(m, ts, nts) ==
  [h \in Handles |->
     LET fin == { t \in 1 .. Len(ts) :
                    ts[t].pc # "done" /\ nts[t].pc = "done" /\ handlerOf[t] = h }
     IN  IF fin = {} THEN m[h]
         ELSE LET t == CHOOSE x \in fin : TRUE
                  tk == nts[t]
              IN  IF tk.res # "ok" THEN m[h]
                  ELSE IF tk.op = "endCall" THEN NoSipCall
                  ELSE IF tk.op = "createCall" /\ m[h].owner = t
                       THEN [m[h] EXCEPT !.id = tk.ret.id]
                  ELSE m[h]]

\* const inactiveThreshold = 30 * 60 * 1000 (every sweep)
InactiveThreshold == 30 * 60 * 1000

\* ---- SIPHandler: the timeout sweep and shutdown ----
NoReap == [op |-> "none", state |-> "idle", at |-> 0, h |-> 0, task |-> 0]

\* now.getTime() - sipCall.startTime.getTime() > inactiveThreshold, now being
\* the Date the sweep read when it started.
StaleCall(m, h, at) == at - m[h].startTime > InactiveThreshold

\* The next entry the loop acts on after handle h: cleanupInactiveCalls
\* passes over the entries that are not stale, shutdown over none.
ReapNext(m, op, h, at) ==
  LET due == { x \in Handles : /\ x > h /\ m[x] # NoSipCall
                                /\ (op = "shutdown" \/ StaleCall(m, x, at)) }
  IN  IF due = {} THEN 0 ELSE CHOOSE x \in due : \A y \in due : x <= y

\* activeSIPCalls.clear()
NoSipCalls == [h \in Handles |-> NoSipCall]

\* The sweep has returned.
ReapDone(op, at) == [op |-> op, state |-> "done", at |-> at, h |-> 0, task |-> 0]

\* cleanupInactiveCalls and shutdown up to their first await: with no entry
\* to end, cleanupInactiveCalls returns and shutdown clears the map and
\* returns; else handleCallEnded is called for the entry and awaited.
HandlerReap(op) ==
  LET x == ReapNext(activeSIPCalls, op, 0, now) IN
  IF x = 0
  THEN /\ reap' = ReapDone(op, now)
       /\ activeSIPCalls' = IF op = "shutdown" THEN NoSipCalls ELSE activeSIPCalls
       /\ UNCHANGED <<callVars, sipVars, handlerOf, rejected, stop, rtcVars, sessVars>>
  ELSE /\ reap' = [op |-> op, state |-> "awaiting", at |-> now, h |-> x,
                   task |-> Len(tasks) + 1]
       /\ EndEntry(x, "completed")
       /\ UNCHANGED <<stop, rtcVars, sessVars>>

HandlerCleanup ==
  /\ reap.state = "idle"
  /\ HandlerReap("cleanupInactiveCalls")

HandlerShutdown ==
  /\ reap.state = "idle"
  /\ HandlerReap("shutdown")

\* The sweep after the handleCallEnded it awaited has settled in this step.
\* A rejection leaves the loop: the catch of cleanupInactiveCalls logs it and
\* the sweep returns, the catch of shutdown rethrows it.  Else the loop goes
\* on, and with the handles of the model it has no entry left.
ReapSettle ==
  IF /\ reap.state = "awaiting"
     /\ tasks[reap.task].pc # "done" /\ tasks'[reap.task].pc = "done"
  THEN IF tasks'[reap.task].res = "ok" THEN ReapDone(reap.op, reap.at)
       ELSE [reap EXCEPT !.state = IF reap.op = "shutdown" THEN "failed" ELSE "done"]
  ELSE reap

\* The map after the sweep's step: shutdown clears it when its loop is over.
ReapMap(r, nr, m) ==
  IF r.state = "awaiting" /\ nr.state = "done" /\ nr.op = "shutdown" /\ nr.task = 0
  THEN NoSipCalls ELSE m

\* ---- WebRTCHandler, and the socket handlers of the gateway ----
Sockets == {1, 2}
MaxEvents == 3            \* socket events handled in one behaviour
MaxRtcCalls == 2          \* calls created for the sockets to signal about

\* `${callId}-${socket.id}`
ConnId(c, x) == <<c, x>>
ConnIds == IdSpace \X Sockets
NoConnId == <<NoId, 0>>

\* The room `call-${callId}`, and the room 'call-' + payload names when the
\* payload is an object ('call-[object Object]').
CallRoom(c) == c
ObjectRoom == ForeignId + 1

NoConn ==
  [callId |-> NoId, socketId |-> 0, status |-> UNDEF, startTime |-> NoNum,
   localSDP |-> UNDEF, remoteSDP |-> UNDEF, iceCandidates |-> << >>]

NoEvent == [n |-> 0, sock |-> 0, kind |-> "none"]

\* A message emitted to socket to.
Msg(to, event, callId, from) == [to |-> to, event |-> event, callId |-> callId, from |-> from]

\* logger.error followed by socket.emit('error', ...).
ErrorOut(x) == {Msg(0, "log-error", NoId, x), Msg(x, "error", NoId, 0)}

\* The payloads of join-call: { callId, userId? } as WebRTCHandler reads it,
\* or the bare callId the gateway's own handler reads.
JoinPayloads == { [form |-> f, callId |-> c] : f \in {"object", "string"}, c \in TargetIds }

\* The payloads of leave-call: none, or the bare callId.
LeavePayloads ==
  {[form |-> "none", callId |-> NoId]} \cup { [form |-> "string", callId |-> c] : c \in TargetIds }

\* data.callId: undefined when the payload is a bare string; the Registry is
\* then asked for an identifier no Call has.
DataCallId(p) == IF p.form = "object" THEN p.callId ELSE ForeignId

\* The room the gateway's join-call/leave-call handler names: 'call-' + payload.
PayloadRoom(p) ==
  CASE p.form = "string" -> CallRoom(p.callId)
    [] p.form = "object" -> ObjectRoom
    [] OTHER -> 0

\* The maps and rooms a handler works on, and what it emits.
RtcState ==
  [conns |-> activeConnections, s2c |-> socketToConnection, rooms |-> rooms, wire |-> wire]

RtcPut(st) ==
  /\ activeConnections' = st.conns
  /\ socketToConnection' = st.s2c
  /\ rooms' = st.rooms
  /\ wire' = st.wire

\* handleJoinCall after "await getCall" (and the catch of its caller): no Call
\* throws and the socket gets 'error'; else the connection is recorded, the
\* socket joins the call's room and gets 'joined-call'.
JoinCont(st, tk, x) ==
  IF tk.res = "ok" /\ tk.ret # NoCall
  THEN LET c == tk.id IN
       [conns |-> [st.conns EXCEPT ![ConnId(c, x)] =
                     [NoConn EXCEPT !.callId = c, !.socketId = x,
                                    !.status = "connected", !.startTime = now]],
        s2c |-> [st.s2c EXCEPT ![x] = ConnId(c, x)],
        rooms |-> st.rooms \cup {<<CallRoom(c), x>>},
        wire |-> {Msg(x, "joined-call", c, 0)}]
  ELSE [st EXCEPT !.wire = ErrorOut(x)]

\* The join-call handler whose getCall returns in this step runs on.
JoinSettle(jo, st) ==
  LET fin == { t \in 1 .. Len(tasks') :
                 /\ jo[t] # 0
                 /\ tasks'[t].pc = "done"
                 /\ t > Len(tasks) \/ tasks[t].pc # "done" }
  IN  IF fin = {} THEN st
      ELSE LET t == CHOOSE y \in fin : TRUE IN JoinCont(st, tasks'[t], jo[t])

\* handleLeaveCall: a socket with no connection is left alone; else the socket
\* leaves the room of the connection's call and both map entries go.
LeaveCall(st, x) ==
  LET cid == st.s2c[x] IN
  IF cid = NoConnId THEN st
  ELSE IF st.conns[cid] = NoConn THEN st
  ELSE [st EXCEPT !.rooms = @ \ {<<CallRoom(st.conns[cid].callId), x>>},
                  !.conns = [@ EXCEPT ![cid] = NoConn],
                  !.s2c = [@ EXCEPT ![x] = NoConnId]]

\* Mutant: the message goes to the whole room.
BroadcastAll(room, x) == { y \in Sockets : <<room, y>> \in rooms }

\* socket.to(room): the sockets in the room, the sender left out.
Broadcast(room, x) == { y \in Sockets : <<room, y>> \in rooms /\ y # x }

\* Mutant: handleIceCandidate throws as handleOffer does.
RelayFailureAll(kind, x) == ErrorOut(x)

\* A sender with no connection: handleOffer and handleAnswer throw, the caller
\* logs and emits 'error'; handleIceCandidate returns.
RelayFailure(kind, x) ==
  IF kind = "ice-candidate" THEN {} ELSE ErrorOut(x)

\* What a relay handler stores on the connection.
Recorded(conn, kind) ==
  CASE kind = "offer" -> [conn EXCEPT !.localSDP = "sdp"]
    [] kind = "answer" -> [conn EXCEPT !.remoteSDP = "sdp"]
    [] kind = "ice-candidate" -> [conn EXCEPT !.iceCandidates = Append(@, "candidate")]

\* A socket event is handled (io.on('connection') has attached both sets of
\* handlers to the socket, which changes no state).  A serial client sends it
\* when its earlier requests have been answered.
Event(x, kind) ==
  /\ sockets[x] = "open"
  /\ lastEvent.n < MaxEvents
  /\ serial => AllDone
  /\ lastEvent' = [n |-> lastEvent.n + 1, sock |-> x, kind |-> kind]

\* POST /calls before the first socket event: the calls clients signal about.
RtcCreate ==
  /\ lastEvent.n = 0
  /\ Len(tasks) < MaxRtcCalls
  /\ HttpCreate

\* 'join-call': WebRTCHandler's handler runs to "await getCall", the gateway's
\* handler joins the room its payload names, then WebRTCHandler's handler
\* runs on if getCall has returned.
JoinCall(x, p) ==
  /\ Event(x, "join-call")
  /\ Begin(NewTask("getCall", DataCallId(p)))
  /\ joinOf' = [joinOf EXCEPT ![Len(tasks) + 1] = x]
  /\ RtcPut(JoinSettle(joinOf', [RtcState EXCEPT !.rooms = @ \cup {<<PayloadRoom(p), x>>},
                                                 !.wire = {}]))
  /\ UNCHANGED <<cache, db, now, faults, emitted, sockets, sipVars, handlerVars, stop, reap, sessVars>>

RtcJoin(x) ==
  /\ x \in Sockets
  /\ \E p \in JoinPayloads : JoinCall(x, p)

\* 'leave-call': handleLeaveCall, then the gateway's handler leaves the room
\* its payload names.
LeaveEvent(x, p) ==
  /\ Event(x, "leave-call")
  /\ LET st == LeaveCall(RtcState, x) IN
     RtcPut([st EXCEPT !.rooms = @ \ {<<PayloadRoom(p), x>>}, !.wire = {}])
  /\ UNCHANGED <<sockets, joinOf, callVars, sipVars, handlerVars, stop, reap, sessVars>>

RtcLeave(x) ==
  /\ x \in Sockets
  /\ \E p \in LeavePayloads : LeaveEvent(x, p)

\* handleOffer, handleAnswer, handleIceCandidate with the catch of their caller.
Relay(x, kind, c) ==
  /\ Event(x, kind)
  /\ LET cid == socketToConnection[x] IN
     IF cid = NoConnId \/ activeConnections[cid] = NoConn
     THEN RtcPut([RtcState EXCEPT !.wire = RelayFailure(kind, x)])
     ELSE RtcPut([RtcState EXCEPT
                    !.conns = [@ EXCEPT ![cid] = Recorded(@, kind)],
                    !.wire = { Msg(y, kind, c, x) : y \in Broadcast(CallRoom(c), x) }])
  /\ UNCHANGED <<sockets, joinOf, callVars, sipVars, handlerVars, stop, reap, sessVars>>

RtcOffer(x) ==
  /\ x \in Sockets
  /\ \E c \in TargetIds : Relay(x, "offer", c)

RtcAnswer(x) ==
  /\ x \in Sockets
  /\ \E c \in TargetIds : Relay(x, "answer", c)

RtcIceCandidate(x) ==
  /\ x \in Sockets
  /\ \E c \in TargetIds : Relay(x, "ice-candidate", c)

\* 'disconnect': socket.io has taken the socket out of every room before the
\* handlers run; handleDisconnect calls handleLeaveCall.
RtcDisconnect(x) ==
  /\ Event(x, "disconnect")
  /\ sockets' = [sockets EXCEPT ![x] = "closed"]
  /\ RtcPut([LeaveCall([RtcState EXCEPT !.rooms = { m \in @ : m[2] # x }], x)
               EXCEPT !.wire = {}])
  /\ UNCHANGED <<joinOf, callVars, sipVars, handlerVars, stop, reap, sessVars>>

\* ---- CallManager: call sessions ----

NoSession ==
  [callId |-> NoId, sessionId |-> NoId, startTime |-> NoDate, lastActivity |-> NoDate,
   isActive |-> FALSE]

\* No entry of activeSessions.  stamp orders the entries as a Map iterates
\* them: by insertion.
NoEntry == [ref |-> 0, stamp |-> 0]

\* An invocation of a session method.  ref: the object it holds; text: the
\* JSON it has handed to redis.set; last: the stamp of the entry its loop
\* visited last; at: the "now" cleanupInactiveSessions captured; pre: the
\* sessions of the hot set when it was called; flipped: the sessions whose
\* isActive it has set to false; caught: an error its catch has swallowed.
NoSTask ==
  [op |-> "none", pc |-> "done", sid |-> NoId, callId |-> NoId, ref |-> 0, text |-> NoSession,
   res |-> "pending", ret |-> NoSession, last |-> 0, at |-> NoNum,
   pre |-> [i \in IdSpace |-> NoSession], flipped |-> {}, found |-> FALSE, caught |-> "none"]

\* JSON.stringify(session) and JSON.parse(text).
JsonStringifySession(session) ==
  [session EXCEPT !.startTime = IsoString(session.startTime),
                  !.lastActivity = IsoString(session.lastActivity)]
JsonParseSession(text) == text

\* What getActiveSessions returns.
getActiveSessions ==
  { sheap[activeSessions[i].ref] : i \in { j \in IdSpace : activeSessions[j].ref # 0 } }

\* What an undisturbed getCallSession(id) returns in this state.
SessView(id) ==
  IF activeSessions[id].ref # 0 THEN sheap[activeSessions[id].ref]
  ELSE IF sessionCache[id] # NoSession THEN JsonParseSession(sessionCache[id])
  ELSE NoSession

SessAllDone == \A x \in 1 .. Len(stasks) : stasks[x].pc = "done"

SessCanStart ==
  IF serial THEN SessAllDone /\ Len(stasks) < MaxTasks ELSE Len(stasks) < MaxOps

\* The session identifiers createCallSession has returned, and one it never did.
SessTargets ==
  { stasks[x].sid : x \in { y \in 1 .. Len(stasks) : stasks[y].op = "create" /\ stasks[y].res = "ok" } }
    \cup {ForeignId}

\* Map.set: a key the map has keeps its place, a new key goes last.
MaxOf(S) == IF S = {} THEN 0 ELSE CHOOSE m \in S : \A n \in S : n <= m
NextStamp(as, ts) ==
  1 + MaxOf({ as[i].stamp : i \in IdSpace } \cup { ts[x].last : x \in 1 .. Len(ts) })
MapSet(as, ts, id, r) ==
  [as EXCEPT ![id] = [ref |-> r,
                      stamp |-> IF as[id].ref # 0 THEN as[id].stamp ELSE NextStamp(as, ts)]]

\* Session objects nothing refers to any more are dropped from the heap.
SessGc(sh, as, ts) ==
  LET live == { as[i].ref : i \in IdSpace } \cup
              { ts[x].ref : x \in { y \in 1 .. Len(ts) : ts[y].pc # "done" } }
  IN  [r \in TaskIds |-> IF r \in live THEN sh[r] ELSE NoSession]

SessCommit(nt, nh, na) ==
  /\ stasks' = nt
  /\ activeSessions' = na
  /\ sheap' = SessGc(nh, na, nt)

SessDone(tk, res) == [tk EXCEPT !.pc = "done", !.res = res, !.ref = 0]

\* now.getTime() - session.lastActivity.getTime() > inactiveThreshold
Stale(session, at) == at - session.lastActivity.t > InactiveThreshold

\* The entries a loop has still to visit, and the first of them.
Unvisited(as, last) == { i \in IdSpace : as[i].ref # 0 /\ as[i].stamp > last }
FirstOf(as, ids) == CHOOSE i \in ids : \A j \in ids : as[i].stamp <= as[j].stamp

\* The entries at which the loop of cleanupInactiveSessions does something:
\* a stale session, or one whose lastActivity is not a Date (getTime throws).
Stops(as, sh, tk) ==
  { i \in Unvisited(as, tk.last) :
      sh[as[i].ref].lastActivity.kind # "Date" \/ Stale(sh[as[i].ref], tk.at) }

\* The loops of cleanupInactiveSessions and shutdown, run on to their next
\* await: endCallSession finds the session in the hot set, sets isActive and
\* awaits redis.del.  The outer catch of cleanupInactiveSessions swallows the
\* TypeError; shutdown clears the hot sets when its loop is through.
LoopOn(tk, as, sh) ==
  LET ids == IF tk.op = "cleanup" THEN Stops(as, sh, tk) ELSE Unvisited(as, tk.last) IN
  IF ids = {}
  THEN [tk |-> SessDone(tk, "ok"),
        as |-> IF tk.op = "shutdown" THEN [i \in IdSpace |-> NoEntry] ELSE as,
        sh |-> sh, clear |-> tk.op = "shutdown"]
  ELSE LET i == FirstOf(as, ids)
           r == as[i].ref
       IN  IF tk.op = "cleanup" /\ sh[r].lastActivity.kind # "Date"
           THEN [tk |-> [SessDone(tk, "ok") EXCEPT !.caught = "TypeError"],
                 as |-> as, sh |-> sh, clear |-> FALSE]
           ELSE [tk |-> [tk EXCEPT !.pc = "e_del", !.sid = i, !.ref = r, !.last = as[i].stamp,
                                   !.flipped = @ \cup {i}],
                 as |-> as, sh |-> [sh EXCEPT ![r].isActive = FALSE], clear |-> FALSE]

\* getCallSession has returned object r (0: none) to its caller.
AfterGet(tk, r, as, sh) ==
  CASE tk.op = "get" ->
         [tk |-> [SessDone(tk, "ok") EXCEPT !.ret = IF r = 0 THEN NoSession ELSE sh[r],
                                            !.found = r # 0],
          as |-> as, sh |-> sh, clear |-> FALSE]
    [] tk.op = "touch" ->
         IF r = 0 THEN [tk |-> SessDone(tk, "ok"), as |-> as, sh |-> sh, clear |-> FALSE]
         ELSE LET sh1 == [sh EXCEPT ![r].lastActivity = NewDate] IN
              [tk |-> [tk EXCEPT !.pc = "t_set", !.ref = r, !.found = TRUE,
                                 !.text = JsonStringifySession(sh1[r])],
               as |-> as, sh |-> sh1, clear |-> FALSE]
    [] tk.op = "end" ->
         IF r = 0 THEN [tk |-> SessDone(tk, "ok"), as |-> as, sh |-> sh, clear |-> FALSE]
         ELSE [tk |-> [tk EXCEPT !.pc = "e_del", !.ref = r, !.found = TRUE,
                                 !.flipped = @ \cup {tk.sid}],
               as |-> as, sh |-> [sh EXCEPT ![r].isActive = FALSE], clear |-> FALSE]

\* The step's outcome is written to the state; shutdown's last step clears
\* activeCalls as well.
SessPut(t, out) ==
  /\ SessCommit(IF t > Len(stasks) THEN Append(stasks, out.tk) ELSE [stasks EXCEPT ![t] = out.tk],
                out.sh, out.as)
  /\ IF out.clear
     THEN Commit(tasks, heap, [i \in IdSpace |-> 0])
     ELSE UNCHANGED <<tasks, heap, activeCalls, serial>>

\* createCallSession(callId), up to "await redis.set".
SessCreate ==
  /\ SessCanStart
  /\ \E callId \in TargetIds :
       LET t == Len(stasks) + 1
           session == [callId |-> callId, sessionId |-> Uuidv4(t), startTime |-> NewDate,
                       lastActivity |-> NewDate, isActive |-> TRUE]
       IN  SessPut(t, [tk |-> [NoSTask EXCEPT !.op = "create", !.pc = "c_set", !.sid = Uuidv4(t),
                                              !.callId = callId, !.ref = t,
                                              !.text = JsonStringifySession(session)],
                       as |-> activeSessions, sh |-> [sheap EXCEPT ![t] = session],
                       clear |-> FALSE])
  /\ UNCHANGED <<sessionCache, sessionEvents, cache, db, now, faults, emitted>>
  /\ UNCHANGED <<sipVars, handlerVars, stop, reap, rtcVars>>

\* getCallSession entered by op: a hit in the hot set is returned at once,
\* else redis.get is awaited.
SessStart(op, id) ==
  /\ SessCanStart
  /\ LET t == Len(stasks) + 1
         tk == [NoSTask EXCEPT !.op = op, !.pc = "g_get", !.sid = id]
         r == activeSessions[id].ref
     IN  IF r # 0 THEN SessPut(t, AfterGet(tk, r, activeSessions, sheap))
         ELSE SessPut(t, [tk |-> tk, as |-> activeSessions, sh |-> sheap, clear |-> FALSE])
  /\ UNCHANGED <<sessionCache, sessionEvents, cache, db, now, faults, emitted>>
  /\ UNCHANGED <<sipVars, handlerVars, stop, reap, rtcVars>>

SessGet ==
  /\ \E id \in SessTargets : SessStart("get", id)

\* updateSessionActivity(sessionId)
SessTouch ==
  /\ \E id \in SessTargets : SessStart("touch", id)

\* endCallSession(sessionId)
SessEnd ==
  /\ \E id \in SessTargets : SessStart("end", id)

\* cleanupInactiveSessions() and shutdown(), up to their first await.
SessLoop(op) ==
  /\ SessCanStart
  /\ SessPut(Len(stasks) + 1,
             LoopOn([NoSTask EXCEPT !.op = op, !.pc = "loop", !.at = now,
                                    !.pre = [i \in IdSpace |->
                                               IF activeSessions[i].ref # 0
                                               THEN sheap[activeSessions[i].ref] ELSE NoSession]],
                    activeSessions, sheap))
  /\ UNCHANGED <<sessionCache, sessionEvents, cache, db, now, faults, emitted>>
  /\ UNCHANGED <<sipVars, handlerVars, stop, reap, rtcVars>>

SessCleanup ==
  /\ SessAllDone \/ ~ serial
  /\ SessLoop("cleanup")

SessShutdown ==
  /\ SessAllDone \/ ~ serial
  /\ SessLoop("shutdown")

\* redis.set of createCallSession returned: the session enters the hot set
\* and session:created is emitted; a failure is rethrown.
SessCreateSet(t) ==
  /\ stasks[t].pc = "c_set"
  /\ LET tk == stasks[t] IN
     \/ /\ Fault
        /\ SessPut(t, [tk |-> SessDone(tk, "error"), as |-> activeSessions, sh |-> sheap,
                       clear |-> FALSE])
        /\ UNCHANGED <<sessionCache, sessionEvents>>
     \/ /\ UNCHANGED faults
        /\ sessionCache' = [sessionCache EXCEPT ![tk.sid] = tk.text]
        /\ sessionEvents' = Append(sessionEvents, [kind |-> "session:created", sessionId |-> tk.sid])
        /\ SessPut(t, [tk |-> [SessDone(tk, "ok") EXCEPT !.ret = sheap[tk.ref]],
                       as |-> MapSet(activeSessions, stasks, tk.sid, tk.ref), sh |-> sheap,
                       clear |-> FALSE])

\* redis.get of getCallSession returned: a hit is parsed and put in the hot
\* set.  getCallSession rethrows a failure; updateSessionActivity and
\* endCallSession swallow it.
SessGetCache(t) ==
  /\ stasks[t].pc = "g_get"
  /\ UNCHANGED <<sessionCache, sessionEvents>>
  /\ LET tk == stasks[t] IN
     \/ /\ Fault
        /\ SessPut(t, [tk |-> IF tk.op = "get" THEN SessDone(tk, "error")
                              ELSE [SessDone(tk, "ok") EXCEPT !.caught = "cache"],
                       as |-> activeSessions, sh |-> sheap, clear |-> FALSE])
     \/ /\ UNCHANGED faults
        /\ IF sessionCache[tk.sid] # NoSession
           THEN SessPut(t, AfterGet(tk, t, MapSet(activeSessions, stasks, tk.sid, t),
                                    [sheap EXCEPT ![t] = JsonParseSession(sessionCache[tk.sid])]))
           ELSE SessPut(t, AfterGet(tk, 0, activeSessions, sheap))

\* redis.set of updateSessionActivity returned; a failure is swallowed.
SessTouchSet(t) ==
  /\ stasks[t].pc = "t_set"
  /\ UNCHANGED sessionEvents
  /\ LET tk == stasks[t] IN
     \/ /\ Fault
        /\ SessPut(t, [tk |-> [SessDone(tk, "ok") EXCEPT !.caught = "cache"],
                       as |-> activeSessions, sh |-> sheap, clear |-> FALSE])
        /\ UNCHANGED sessionCache
     \/ /\ UNCHANGED faults
        /\ sessionCache' = [sessionCache EXCEPT ![tk.sid] = tk.text]
        /\ SessPut(t, [tk |-> SessDone(tk, "ok"),
                       as |-> MapSet(activeSessions, stasks, tk.sid, tk.ref), sh |-> sheap,
                       clear |-> FALSE])

\* redis.del of endCallSession returned: the session leaves the hot set and
\* session:ended is emitted; a failure is swallowed by endCallSession's
\* catch.  Either way a loop that called endCallSession goes on.
SessEndDel(t) ==
  /\ stasks[t].pc = "e_del"
  /\ LET tk == stasks[t]
         go(k, as, sh) == IF k.op = "end"
                          THEN [tk |-> SessDone(k, "ok"), as |-> as, sh |-> sh, clear |-> FALSE]
                          ELSE LoopOn([k EXCEPT !.ref = 0], as, sh)
     IN
     \/ /\ Fault
        /\ SessPut(t, go([tk EXCEPT !.caught = "cache"], activeSessions, sheap))
        /\ UNCHANGED <<sessionCache, sessionEvents>>
     \/ /\ UNCHANGED faults
        /\ sessionCache' = [sessionCache EXCEPT ![tk.sid] = NoSession]
        /\ sessionEvents' = Append(sessionEvents, [kind |-> "session:ended", sessionId |-> tk.sid])
        /\ SessPut(t, go(tk, [activeSessions EXCEPT ![tk.sid] = NoEntry], sheap))

\* A session method resumes at the await it is waiting at.
SessResume ==
  /\ \E t \in 1 .. Len(stasks) :
       \/ SessCreateSet(t)
       \/ SessGetCache(t)
       \/ SessTouchSet(t)
       \/ SessEndDel(t)
  /\ UNCHANGED <<cache, db, now, emitted, sipVars, handlerVars, stop, reap, rtcVars>>

\* Half an hour passes.
Idle ==
  /\ now <= MaxTime
  /\ now' = now + InactiveThreshold
  /\ UNCHANGED <<tasks, heap, activeCalls, cache, db, faults, emitted, serial>>
  /\ UNCHANGED <<sipVars, handlerVars, restVars>>

\* A task resumes at the await it is waiting at; when it returns, the
\* SIPHandler handler awaiting it runs on.
Resume ==
  /\ \E t \in 1 .. Len(tasks) :
       \/ GetCache(t)
       \/ GetDb(t)
       \/ GetSet(t)
       \/ UpdateDb(t)
       \/ UpdateCache(t)
       \/ EndDb(t)
       \/ EndDel(t)
       \/ CreateDb(t)
       \/ CreateCache(t)
  /\ reap' = ReapSettle
  /\ activeSIPCalls' = ReapMap(reap, reap', HandlerSettle(activeSIPCalls, tasks, tasks'))
  /\ UNCHANGED <<handlerOf, rejected, stop, sessVars>>
  /\ RtcPut(JoinSettle(joinOf, RtcState))
  /\ UNCHANGED <<sockets, joinOf, lastEvent>>

InitCalls ==
  /\ tasks = << >>
  /\ heap = [r \in TaskIds |-> NoCall]
  /\ activeCalls = [i \in IdSpace |-> 0]
  /\ cache = [i \in IdSpace |-> NoCall]
  /\ db = {}
  /\ now = 0
  /\ faults = 0
  /\ emitted = << >>
  /\ sipCalls = [h \in Handles |-> NoSip]
  /\ listeners = [h \in Handles |-> 0]
  /\ sess = [h \in Handles |-> "none"]
  /\ observed = [h \in Handles |-> << >>]
  /\ activeSIPCalls = [h \in Handles |-> NoSipCall]
  /\ handlerOf = [t \in TaskIds |-> 0]
  /\ rejected = {}
  /\ stop = NoStop
  /\ reap = NoReap
  /\ sockets = [x \in Sockets |-> "open"]
  /\ activeConnections = [i \in ConnIds |-> NoConn]
  /\ socketToConnection = [x \in Sockets |-> NoConnId]
  /\ rooms = {}
  /\ wire = {}
  /\ joinOf = [t \in TaskIds |-> 0]
  /\ lastEvent = NoEvent
  /\ stasks = << >>
  /\ sheap = [r \in TaskIds |-> NoSession]
  /\ activeSessions = [i \in IdSpace |-> NoEntry]
  /\ sessionCache = [i \in IdSpace |-> NoSession]
  /\ sessionEvents = << >>

Init == InitCalls /\ serial = FALSE

\* The same, for a client that awaits every reply before its next request.
InitSerial == InitCalls /\ serial = TRUE

\* The Call Registry driven through the HTTP surface.
Next ==
  \/ HttpCreate
  \/ HttpGet
  \/ HttpUpdate
  \/ HttpEnd
  \/ Resume
  \/ Tick
  \/ CacheExpire

Spec == Init /\ [][Next]_vars

\* req.body.status for the bodies schemas.updateCall accepts: status is
\* optional, so a body without it passes validateRequest.
PatchStatuses == StatusInputs \cup {UNDEF}

\* PATCH /calls/:id/status with any body the validation accepts: the route
\* hands req.body.status to updateCallStatus as it is.
HttpPatch ==
  /\ UNCHANGED <<handlerVars, restVars>>
  /\ \E id \in TargetIds, status \in PatchStatuses :
       Begin([NewTask("updateCallStatus", id) EXCEPT !.status = status])
  /\ UNCHANGED <<cache, db, now, faults, emitted, sipVars>>

\* Clients that create, patch and read calls.
NextPatch ==
  \/ HttpCreate
  \/ HttpPatch
  \/ HttpGet
  \/ Resume

SpecPatch == Init /\ [][NextPatch]_vars

\* A client that creates calls and patches their status, awaiting every reply.
NextStatus ==
  \/ HttpCreate
  \/ HttpUpdate
  \/ Resume
  \/ Tick

SpecStatus == InitSerial /\ [][NextStatus]_vars

\* The Call Registry driven by the SIP coordinator.
NextSip ==
  \/ \E h \in Handles : SipInvite(h)
  \/ \E h \in Handles : SipStateUnheard(h)
  \/ \E h \in Handles : SipStateChange(h)
  \/ Resume
  \/ Tick
  \/ CacheExpire

SpecSip == Init /\ [][NextSip]_vars

\* The SIP coordinator with its stop.
NextStop ==
  \/ \E h \in Handles : SipInvite(h)
  \/ \E h \in Handles : SipStateUnheard(h)
  \/ \E h \in Handles : SipStateChange(h)
  \/ Resume
  \/ Tick
  \/ CacheExpire
  \/ SipStop
  \/ SipStopResume

SpecStop == Init /\ [][NextStop]_vars

\* The signalling relay, with calls a client has created, every Registry call
\* awaited before the next is made.
NextRtc ==
  \/ RtcCreate
  \/ Resume
  \/ \E x \in Sockets : RtcJoin(x)
  \/ \E x \in Sockets : RtcLeave(x)
  \/ \E x \in Sockets : RtcOffer(x)
  \/ \E x \in Sockets : RtcAnswer(x)
  \/ \E x \in Sockets : RtcIceCandidate(x)
  \/ \E x \in Sockets : RtcDisconnect(x)

SpecRtc == InitSerial /\ [][NextRtc]_vars

\* The session methods of CallManager.
NextSession ==
  \/ SessCreate
  \/ SessGet
  \/ SessTouch
  \/ SessEnd
  \/ SessCleanup
  \/ SessShutdown
  \/ SessResume
  \/ Tick
  \/ Idle

SpecSession == Init /\ [][NextSession]_vars

\* The same, every call awaited before the next is made.
SpecSessionSerial == InitSerial /\ [][NextSession]_vars

\* The Call Registry driven by SIPHandler.
NextHandler ==
  \/ \E h \in Handles : HandlerIncoming(h)
  \/ \E h \in Handles : HandlerAnswered(h)
  \/ \E h \in Handles : HandlerEnded(h)
  \/ \E h \in Handles : HandlerError(h)
  \/ Resume
  \/ Tick
  \/ CacheExpire

SpecHandler == Init /\ [][NextHandler]_vars

\* SIPHandler with its timeout sweep and its shutdown.
NextReap ==
  \/ \E h \in Handles : HandlerIncoming(h)
  \/ HandlerCleanup
  \/ HandlerShutdown
  \/ Resume
  \/ Tick
  \/ Idle

SpecReap == Init /\ [][NextReap]_vars

\* The registry with createCall open to every Partial<Call>.
NextApi ==
  \/ ApiCreate
  \/ HttpCreate
  \/ HttpGet
  \/ Resume
  \/ Tick
  \/ CacheExpire

SpecApi == Init /\ [][NextApi]_vars

\* Both coordinators at once.
NextAll == Next \/ NextSip
SpecAll == Init /\ [][NextAll]_vars

\* ======================= the claims =======================
Done(t) == tasks[t].pc = "done"
Ok(t) == tasks[t].res = "ok"
Created(id) == \E i \in 1 .. Len(emitted) : emitted[i].kind = "call:created" /\ emitted[i].id = id

\* C1: for every valid draft (one schemas.createCall accepts), createCall
\* followed immediately by getCall on the returned identifier returns a Call
\* with the draft's phone number, direction and client reference, a
\* non-terminal status, and createdAt equal to updatedAt.
C1_CreateThenGet ==
  \A t \in 2 .. Len(tasks) :
    LET c == tasks[t - 1]
        g == tasks[t]
    IN  (/\ c.op = "createCall" /\ c.res = "ok" /\ c.draft \in HttpDrafts
         /\ g.op = "getCall" /\ g.id = c.ret.id /\ g.solo /\ g.pc = "done")
        => /\ g.res = "ok"
           /\ g.ret.phoneNumber = c.draft.phoneNumber
           /\ g.ret.direction = c.draft.direction
           /\ g.ret.clientId = c.draft.clientId
           /\ g.ret.status \in Statuses \ Terminal
           /\ g.ret.createdAt = g.ret.updatedAt

\* C2: for every draft createCall accepts, Call's own fields included, the
\* created Call has the identifier uuidv4 assigned, status initiated and
\* duration 0.
C2_CreateDefaults ==
  \A t \in 1 .. Len(tasks) :
    (tasks[t].op = "createCall" /\ Ok(t))
      => /\ tasks[t].ret.id = Uuidv4(t)
         /\ tasks[t].ret.status = "initiated"
         /\ tasks[t].ret.duration = 0

\* C3: the store holds at most one row per identifier, every hot-set and
\* cache entry is filed under its own identifier and backed by exactly one
\* row, and no two createCall invocations produced Calls with one identifier.
C3_OneRecordPerId ==
  /\ \A id \in IdSpace :
       /\ Cardinality(DbRows(db, id)) <= 1
       /\ activeCalls[id] # 0 =>
            heap[activeCalls[id]].id = id /\ Cardinality(DbRows(db, id)) = 1
       /\ cache[id] # NoCall =>
            cache[id].id = id /\ Cardinality(DbRows(db, id)) = 1
  /\ \A t1, t2 \in 1 .. Len(tasks) :
       (/\ t1 # t2
        /\ tasks[t1].op = "createCall" /\ Ok(t1)
        /\ tasks[t2].op = "createCall" /\ Ok(t2))
       => tasks[t1].ret.id # tasks[t2].ret.id

\* C3 witness: a createCall whose draft named the identifier of a stored Call
\* was refused by the store, next to the Call that owns the identifier.
C3_Witness ==
  \E t \in 1 .. Len(tasks) :
    /\ tasks[t].op = "createCall" /\ tasks[t].err = "persistence" /\ faults = 0
    /\ tasks[t].draft.id # NoId
    /\ Cardinality(DbRows(db, tasks[t].draft.id)) = 1

\* C4: once the stored status of a Call is completed, failed, busy or
\* no_answer, no step changes it.
C4_TerminalIsFinal ==
  [][\A id \in IdSpace :
       (DbHas(db, id) /\ DbRow(db, id).status \in Terminal)
         => DbRow(db', id).status = DbRow(db, id).status]_vars

\* C5: updateCallStatus(id, completed) twice in a row on a Call that is
\* already terminal: both succeed, and the second writes nothing to the
\* cache and leaves the stored row and updatedAt as they were.
C5_RepeatedCompletedIsNoop ==
  \A t \in 2 .. Len(tasks) :
    LET a == tasks[t - 1]
        b == tasks[t]
    IN  (/\ a.op = "updateCallStatus" /\ b.op = "updateCallStatus"
         /\ a.id = b.id /\ a.status = "completed" /\ b.status = "completed"
         /\ a.preView.status \in Terminal
         /\ a.solo /\ b.solo /\ a.pc = "done" /\ b.pc = "done"
         /\ t = Len(tasks) /\ faults = 0)
        => /\ a.res = "ok" /\ b.res = "ok"
           /\ b.cacheWrites = 0
           /\ b.ret.updatedAt = b.preView.updatedAt
           /\ DbRow(db, b.id) = b.preRow

\* The status each of the three copies of a Call holds (UNDEF: no copy).
HotStatus(id) == IF activeCalls[id] # 0 THEN heap[activeCalls[id]].status ELSE UNDEF
CacheStatus(id) == cache[id].status
StoreStatus(id) == DbRow(db, id).status

\* t1 and t2 are the only operations on their Call since it was created, and
\* t2 was requested while t1 was in flight.
ConcurrentPair(t1, t2) ==
  /\ t1 < t2 /\ tasks[t1].id = tasks[t2].id
  /\ ~ tasks[t2].solo
  /\ \A x \in 1 .. Len(tasks) :
       (x \notin {t1, t2} /\ tasks[x].id = tasks[t1].id) => (tasks[x].op = "createCall" /\ x < t1)

\* C6: two concurrent updateCallStatus calls for one identifier with
\* different statuses: once both have returned, the hot set, the cache and
\* the store hold the same status, that of the call that arrived last.
C6_ConcurrentUpdatesAgree ==
  \A t1, t2 \in 1 .. Len(tasks) :
    (/\ ConcurrentPair(t1, t2)
     /\ tasks[t1].op = "updateCallStatus" /\ tasks[t2].op = "updateCallStatus"
     /\ tasks[t1].status # tasks[t2].status
     /\ Ok(t1) /\ Ok(t2) /\ AllDone /\ t2 = Len(tasks))
    => /\ HotStatus(tasks[t2].id) = tasks[t2].status
       /\ cache[tasks[t2].id] # NoCall => CacheStatus(tasks[t2].id) = tasks[t2].status
       /\ StoreStatus(tasks[t2].id) = tasks[t2].status

\* C7: when the listener of a handle has handled Established and then
\* Terminated, and every Registry operation it started has returned, the
\* stored status of the handle's Call is completed.
C7_SipOrderApplied ==
  \A h \in Handles :
    LET n == Len(observed[h]) IN
    (/\ n >= 2 /\ observed[h][n - 1] = "Established" /\ observed[h][n] = "Terminated"
     /\ AllDone /\ faults = 0)
    => StoreStatus(listeners[h]) = "completed"

\* C8: after updateCallStatus or endCall failed (other than not-found), a
\* getCall returns the Call with the status, duration and updatedAt it had
\* before the failed operation.
C8_FailedTransitionLeavesCall ==
  \A t \in 1 .. Len(tasks) :
    (/\ tasks[t].op \in {"updateCallStatus", "endCall"}
     /\ tasks[t].res = "error" /\ tasks[t].err # "notfound"
     /\ tasks[t].solo /\ t = Len(tasks))
    => /\ View(tasks[t].id).status = tasks[t].preView.status
       /\ View(tasks[t].id).duration = tasks[t].preView.duration
       /\ View(tasks[t].id).updatedAt.t = tasks[t].preView.updatedAt.t

\* C9: a createCall whose store write failed wrote no cache entry, left no
\* Call in the hot set and emitted no created notification.
C9_StoreFailureLeavesNoTrace ==
  \A t \in 1 .. Len(tasks) :
    (tasks[t].op = "createCall" /\ tasks[t].err = "persistence")
    => /\ tasks[t].res = "error"
       /\ tasks[t].cacheWrites = 0
       /\ cache[tasks[t].id] = NoCall
       /\ activeCalls[tasks[t].id] = 0
       /\ \A c \in getActiveCalls : c.id # tasks[t].id
       /\ ~ Created(tasks[t].id)

\* C9 witness: a createCall has failed on its store write.
C9_Witness ==
  \E t \in 1 .. Len(tasks) :
    tasks[t].op = "createCall" /\ Done(t) /\ tasks[t].err = "persistence"

\* C10: a createCall whose store write succeeded succeeds, whatever the
\* cache write does: it returns the Call and the created notification is
\* emitted (and the Call entered the hot set with it).
C10_CacheFailureIsIgnored ==
  \A t \in 1 .. Len(tasks) :
    (tasks[t].op = "createCall" /\ Done(t) /\ tasks[t].err # "persistence")
    => /\ tasks[t].res = "ok"
       /\ tasks[t].ret.id = tasks[t].id
       /\ Created(tasks[t].id)


\* ---- notifications and metrics ----
\* How many notifications of a kind were emitted for a Call.
Emitted(kind, id) ==
  Cardinality({ i \in 1 .. Len(emitted) : emitted[i].kind = kind /\ emitted[i].id = id })

\* metrics.recordCall(direction, status): every notification is emitted in
\* the synchronous section that recorded the call, created and statusUpdated
\* under the Call's new status, ended under 'completed'.
RecordedCalls(id, status) ==
  Cardinality({ i \in 1 .. Len(emitted) :
                  /\ emitted[i].id = id
                  /\ IF emitted[i].kind = "call:ended" THEN status = "completed"
                     ELSE emitted[i].newStatus = status })

\* Task t returns in this step, and no operation was requested after it.
Completes(t) ==
  /\ t = Len(tasks')
  /\ tasks'[t].pc = "done"
  /\ t <= Len(tasks) => tasks[t].pc # "done"

\* C11: a getCall that ran alone and returned gives what the hot set, else
\* the cache, else the store held for the identifier; it returns null only
\* when all three have nothing; and when it read the Call from the store the
\* Call is in the cache and in the hot set as it returns.
C11_GetCallTiers ==
  [][\A t \in 1 .. Len(tasks') :
       (/\ Completes(t)
        /\ tasks'[t].op = "getCall" /\ tasks'[t].solo /\ tasks'[t].res = "ok")
       => LET g == tasks'[t] IN
          /\ g.ret = g.preView
          /\ g.ret = NoCall =>
               (activeCalls'[g.id] = 0 /\ cache'[g.id] = NoCall /\ ~ DbHas(db', g.id))
          /\ g.cacheWrites = 1 =>
               /\ g.ret = CallOfRow(DbRow(db', g.id))
               /\ cache'[g.id] = JsonStringify(g.ret)
               /\ activeCalls'[g.id] # 0
               /\ heap'[activeCalls'[g.id]] = g.ret]_vars

\* C11 witness: a getCall that found its Call only in the store has returned.
C11_Witness ==
  \E t \in 1 .. Len(tasks) :
    /\ tasks[t].op = "getCall" /\ Ok(t) /\ tasks[t].solo
    /\ tasks[t].cacheWrites = 1 /\ tasks[t].ret # NoCall
    /\ tasks[t].preView = tasks[t].ret

\* C12: for the identifier nobody created, getCall returns null,
\* updateCallStatus and endCall fail with not-found (unless the cache or the
\* store itself failed under them), and nothing is filed under it in the hot
\* set, the cache or the store, nor notified.
C12_UnknownIdNotFound ==
  /\ activeCalls[ForeignId] = 0
  /\ cache[ForeignId] = NoCall
  /\ ~ DbHas(db, ForeignId)
  /\ \A i \in 1 .. Len(emitted) : emitted[i].id # ForeignId
  /\ \A t \in 1 .. Len(tasks) :
       (tasks[t].id = ForeignId /\ Done(t) /\ tasks[t].err \notin {"cache", "persistence"})
       => IF tasks[t].op = "getCall"
          THEN Ok(t) /\ tasks[t].ret = NoCall
          ELSE tasks[t].res = "error" /\ tasks[t].err = "notfound"

\* C12 witness: getCall, updateCallStatus and endCall have each answered for
\* the identifier nobody created.
C12_Witness ==
  \A op \in {"getCall", "updateCallStatus", "endCall"} :
    \E t \in 1 .. Len(tasks) :
      /\ tasks[t].op = op /\ tasks[t].id = ForeignId /\ Done(t)
      /\ tasks[t].err \notin {"cache", "persistence"}

\* C13: when an updateCallStatus(id, s) that ran alone on a non-terminal Call
\* returns, the hot set, the cache and the store hold s for id, and it has
\* emitted one statusUpdated notification, carrying the previous status and s.
C13_UpdateReachesAllTiers ==
  [][\A t \in 1 .. Len(tasks') :
       (/\ Completes(t)
        /\ tasks'[t].op = "updateCallStatus" /\ tasks'[t].solo /\ tasks'[t].res = "ok"
        /\ tasks'[t].preView.status \notin Terminal)
       => LET u == tasks'[t] IN
          /\ activeCalls'[u.id] # 0 /\ heap'[activeCalls'[u.id]].status = u.status
          /\ cache'[u.id] # NoCall /\ cache'[u.id].status = u.status
          /\ DbRow(db', u.id).status = u.status
          /\ u.ret.status = u.status
          /\ Len(emitted') = Len(emitted) + 1
          /\ emitted'[Len(emitted')] =
               Notify("call:statusUpdated", u.id, u.preView.status, u.status)]_vars

\* C13 witness: an updateCallStatus on a non-terminal Call has returned.
C13_Witness ==
  \E t \in 1 .. Len(tasks) :
    /\ tasks[t].op = "updateCallStatus" /\ Ok(t) /\ tasks[t].solo
    /\ tasks[t].preView.status \in {"initiated", "answered"}
    /\ tasks[t].status # tasks[t].preView.status
    /\ Emitted("call:statusUpdated", tasks[t].id) >= 1

\* C14: when an endCall returns successfully, the cache has no entry for the
\* identifier and the hot set does not contain it.
C14_EndEvicts ==
  [][\A t \in 1 .. Len(tasks') :
       (/\ tasks'[t].pc = "done" /\ (t <= Len(tasks) => tasks[t].pc # "done")
        /\ tasks'[t].op = "endCall" /\ tasks'[t].res = "ok")
       => /\ cache'[tasks'[t].id] = NoCall
          /\ activeCalls'[tasks'[t].id] = 0
          /\ \A c \in getActiveCalls' : c.id # tasks'[t].id]_vars

\* C14 witness: an endCall has returned successfully for a Call that was in
\* the hot set when it was requested.
C14_Witness ==
  \E t \in 1 .. Len(tasks) :
    /\ tasks[t].op = "endCall" /\ Ok(t)
    /\ tasks[t].pre # NoCall /\ tasks[t].preView # NoCall

\* C15: after a successful endCall(id, fields) that ran alone, the stored row
\* has a terminal status and the supplied duration, and getCall(id) returns a
\* Call with a terminal status, whether or not fields carries a status.
C15_EndPersistsTerminal ==
  \A t \in 1 .. Len(tasks) :
    (/\ tasks[t].op = "endCall" /\ Ok(t) /\ tasks[t].solo /\ t = Len(tasks))
    => /\ StoreStatus(tasks[t].id) \in Terminal
       /\ DbRow(db, tasks[t].id).duration = tasks[t].endData.duration
       /\ View(tasks[t].id).status \in Terminal

\* C16: for each Call at most one ended notification is emitted and at most
\* one completed call is recorded in the metrics.
C16_EndedOnce ==
  \A id \in IdSpace :
    /\ Emitted("call:ended", id) <= 1
    /\ RecordedCalls(id, "completed") <= 1


\* ---- the SIP side ----
\* The Call linked to SIPHandler handle h by its latest successful invite
\* (NoId: none).
HandlerCall(h) ==
  LET made == { t \in 1 .. Len(tasks) :
                  handlerOf[t] = h /\ tasks[t].op = "createCall" /\ Ok(t) }
  IN  IF made = {} THEN NoId
      ELSE tasks[CHOOSE t \in made : \A x \in made : x <= t].ret.id

\* C17: an invite delivered for a handle that has a TransportHandle leaves
\* that TransportHandle in place (it still belongs to the Call creation that
\* filed it) and starts no second createCall for the handle.
C17_DuplicateInviteIgnored ==
  [][\A h \in Handles :
       (activeSIPCalls[h] # NoSipCall /\ activeSIPCalls'[h] # NoSipCall)
       => /\ activeSIPCalls'[h].owner = activeSIPCalls[h].owner
          /\ activeSIPCalls'[h].startTime = activeSIPCalls[h].startTime]_vars

\* C18: when the listener of handle H has handled Established and then
\* Terminated and the Registry operations it started have returned, the
\* Call was notified answered and then ended, its stored status is completed
\* and its stored duration the seconds the listener computed from the
\* handle's start time, the handle's SIPCall is gone and the cache has no
\* entry for the Call.
C18_InviteEstablishedTerminated ==
  \A h \in Handles :
    LET n == Len(observed[h])
        id == listeners[h]
    IN  (/\ n >= 2 /\ observed[h][n - 1] = "Established" /\ observed[h][n] = "Terminated"
         /\ AllDone /\ faults = 0)
        => /\ StoreStatus(id) = "completed"
           /\ \E t \in 1 .. Len(tasks) :
                /\ tasks[t].op = "endCall" /\ tasks[t].sip = h
                /\ DbRow(db, id).duration = tasks[t].endData.duration
           /\ sipCalls[h] = NoSip
           /\ cache[id] = NoCall
           /\ activeCalls[id] = 0
           /\ \E i, j \in 1 .. Len(emitted) :
                /\ i < j
                /\ emitted[i].kind = "call:statusUpdated" /\ emitted[i].newStatus = "answered"
                /\ emitted[j].kind = "call:ended"

\* C19: no answered, ended or error event for a handle without a
\* TransportHandle is thrown back at the caller that delivered it.
C19_UnknownHandleSwallowed ==
  rejected = {}

\* C20: in a quiescent state, a handle whose invite created a Call has its
\* TransportHandle exactly as long as the Call's stored status is not
\* terminal.
C20_HandleLivesWithCall ==
  AllDone =>
    \A h \in Handles :
      HandlerCall(h) # NoId =>
        (activeSIPCalls[h] = NoSipCall <=> StoreStatus(HandlerCall(h)) \in Terminal)


\* C21: once stop has returned, no SIPCall remains and every Call the
\* listener of a handle was set up for has a terminal status in the store.
C21_StopLeavesNothingLive ==
  stop.state = "stopped" =>
    /\ \A h \in Handles : sipCalls[h] = NoSip
    /\ \A h \in stop.live :
         listeners[h] # 0 => StoreStatus(listeners[h]) \in Terminal


\* The socket has a WebRTCConnection the handlers find.
Joined(x) ==
  /\ socketToConnection[x] # NoConnId
  /\ activeConnections[socketToConnection[x]] # NoConn

\* The calls whose room the socket is in, and the connections recorded for it.
GroupsOf(x) == { c \in IdSpace : <<CallRoom(c), x>> \in rooms }
RecordsOf(x) ==
  { cid \in ConnIds : activeConnections[cid] # NoConn /\ activeConnections[cid].socketId = x }

RelayKinds == {"offer", "answer", "ice-candidate"}

\* C22: no connection record, no membership of a call's group and no
\* joined-call acknowledgement exists for a call identifier that resolves to
\* no Call.
C22_JoinUnknownLeavesNoTrace ==
  /\ \A cid \in ConnIds : activeConnections[cid] # NoConn => View(cid[1]) # NoCall
  /\ \A x \in Sockets : \A c \in GroupsOf(x) : View(c) # NoCall
  /\ \A m \in wire : m.event = "joined-call" => View(m.callId) # NoCall

\* C23: a relay by a joined socket reaches exactly the other sockets in the
\* group of the call it names, each message carrying the sender as origin.
C23_RelayToOthers ==
  [][\A x \in Sockets, k \in RelayKinds, c \in TargetIds :
       Relay(x, k, c) /\ Joined(x) =>
         wire' = { Msg(y, k, c, x) : y \in { z \in Sockets : c \in GroupsOf(z) } \ {x} }]_vars

C23_Witness ==
  /\ lastEvent.kind \in RelayKinds
  /\ \E m \in wire :
       /\ m.event = lastEvent.kind
       /\ m.from = lastEvent.sock
       /\ m.to # m.from
       /\ m.callId \in GroupsOf(m.from)

\* C24: a socket is in at most one call's group and has at most one
\* connection record.
C24_OneCallPerConnection ==
  \A x \in Sockets :
    /\ Cardinality(GroupsOf(x)) <= 1
    /\ Cardinality(RecordsOf(x)) <= 1

\* C25: leave-call and disconnect leave every other socket's record and
\* memberships alone; for a socket with no connection they change no record
\* and add no membership; a joined socket has no record and no membership
\* afterwards.
C25_LeaveIdempotentLocal ==
  [][\A x \in Sockets :
       RtcLeave(x) \/ RtcDisconnect(x) =>
         /\ \A y \in Sockets \ {x} : GroupsOf(y)' = GroupsOf(y) /\ RecordsOf(y)' = RecordsOf(y)
         /\ ~ Joined(x) =>
              /\ activeConnections' = activeConnections
              /\ socketToConnection' = socketToConnection
              /\ GroupsOf(x)' \subseteq GroupsOf(x)
         /\ Joined(x) => GroupsOf(x)' = {} /\ RecordsOf(x)' = {} /\ ~ Joined(x)']_vars

\* C26: a relay by a socket with no connection records nothing and reaches no
\* socket but the sender, who gets an error for an offer or an answer; for a
\* candidate the failure goes to the error log only.
C26_RelayUnknownFails ==
  [][\A x \in Sockets, k \in RelayKinds, c \in TargetIds :
       Relay(x, k, c) /\ ~ Joined(x) =>
         /\ activeConnections' = activeConnections
         /\ socketToConnection' = socketToConnection
         /\ rooms' = rooms
         /\ wire' = IF k = "ice-candidate" THEN {Msg(0, "log-error", NoId, x)} ELSE ErrorOut(x)]_vars


\* The session invocation t returns in this step.
SessReturns(t, op) ==
  /\ t <= Len(stasks')
  /\ stasks'[t].op = op
  /\ stasks'[t].pc = "done"
  /\ t > Len(stasks) \/ stasks[t].pc # "done"

\* The invocation t is entered or resumed in this step.
SessActs(t, op) ==
  /\ t <= Len(stasks')
  /\ stasks'[t].op = op
  /\ t > Len(stasks) \/ stasks[t] # stasks'[t]

\* The sessions whose isActive some endCallSession has set to false.
EndedSessions == UNION { stasks[t].flipped : t \in 1 .. Len(stasks) }

\* C27: a createCallSession whose call identifier resolves to no Call fails,
\* and no session of the hot set or the cache names such a call.
C27_SessionNeedsCall ==
  /\ \A t \in 1 .. Len(stasks) :
       stasks[t].op = "create" /\ stasks[t].pc = "done" /\ View(stasks[t].callId) = NoCall
         => stasks[t].res = "error"
  /\ \A i \in IdSpace : SessView(i) # NoSession => View(SessView(i).callId) # NoCall

\* C28: a session that has been ended is never again seen with isActive true.
C28_IsActiveMonotone ==
  \A i \in EndedSessions : ~ SessView(i).isActive

\* C29: when endCallSession returns, a session that was known is in neither
\* the cache nor the hot set and session:ended has been emitted for it; for
\* an unknown session nothing has changed.
C29_EndSessionEvicts ==
  [][\A t \in TaskIds :
       SessReturns(t, "end") =>
         LET id == stasks'[t].sid IN
         IF stasks'[t].found \/ SessView(id) # NoSession
         THEN /\ sessionCache'[id] = NoSession
              /\ activeSessions'[id] = NoEntry
              /\ sessionEvents' = Append(sessionEvents, [kind |-> "session:ended", sessionId |-> id])
         ELSE UNCHANGED <<activeSessions, sessionCache, sessionEvents>>]_vars

\* C30: when cleanupInactiveSessions returns, every session the hot set held
\* at its call is gone if its lastActivity lay more than 30 minutes before
\* the sweep's now, and is as it was otherwise; getCallSession takes no
\* session out of the hot set or the cache and changes none.
C30_SweepEndsStaleOnly ==
  [][\A t \in TaskIds :
       /\ SessReturns(t, "cleanup") =>
            \A i \in IdSpace :
              LET was == stasks'[t].pre[i] IN
              was # NoSession =>
                IF stasks'[t].at - was.lastActivity.t > InactiveThreshold
                THEN SessView(i)' = NoSession
                ELSE SessView(i)' = was
       /\ SessActs(t, "get") =>
            /\ sessionCache' = sessionCache
            /\ \A i \in IdSpace :
                 activeSessions[i].ref # 0 => SessView(i)' = SessView(i)]_vars


\* C33: a getCall that ran alone for a Call createCall had mirrored to the
\* cache, the cache entry being gone, returns the Call and leaves it in the
\* cache again.
C33_EvictedIsReadBack ==
  [][\A t \in 1 .. Len(tasks') :
       (/\ Completes(t)
        /\ tasks'[t].op = "getCall" /\ tasks'[t].solo
        /\ Created(tasks'[t].id) /\ cache[tasks'[t].id] = NoCall)
       => /\ tasks'[t].res = "ok"
          /\ tasks'[t].ret # NoCall
          /\ cache'[tasks'[t].id] # NoCall]_vars

\* C34: a getCall for a Call the store held when it was called returns the
\* Call unless the store itself failed under it, whatever the cache did.
C34_CacheFailureIsMiss ==
  \A t \in 1 .. Len(tasks) :
    (/\ tasks[t].op = "getCall" /\ Done(t)
     /\ tasks[t].preRow # NoRow /\ tasks[t].err # "persistence")
    => tasks[t].res = "ok" /\ tasks[t].ret # NoCall


\* C35: when no Registry operation is pending, every Call getActiveCalls
\* returns has a non-terminal status.
C35_HotSetIsLive ==
  AllDone => \A c \in getActiveCalls : c.status \notin Terminal

\* C36: an updateCallStatus that overlapped an endCall for the same
\* identifier and returns after the endCall has succeeded leaves the
\* identifier out of the hot set and out of the cache.
C36_LateUpdateStaysEvicted ==
  [][\A u, e \in 1 .. Len(tasks) :
       (/\ tasks[u].op = "updateCallStatus" /\ tasks[e].op = "endCall"
        /\ tasks[u].id = tasks[e].id
        /\ Done(e) /\ Ok(e) /\ ~ Done(u)
        /\ tasks'[u].pc = "done" /\ AllDone')
       => /\ activeCalls'[tasks[e].id] = 0
          /\ cache'[tasks[e].id] = NoCall]_vars


\* C37: every relayed offer, answer or candidate on the wire names the call
\* of its sender's connection: it reaches only sockets in the group of the
\* call the sender joined.
C37_RelayStaysInOwnCall ==
  \A m \in wire :
    m.event \in RelayKinds =>
      /\ Joined(m.from)
      /\ activeConnections[socketToConnection[m.from]].callId = m.callId


\* C38: the status of every Call in the hot set, of every cache entry and of
\* every stored row is one of the seven statuses.
C38_StatusInDomain ==
  /\ \A c \in getActiveCalls : c.status \in Statuses
  /\ \A i \in IdSpace : cache[i] # NoCall => cache[i].status \in Statuses
  /\ \A r \in db : r.status \in Statuses


\* C39: when the createCall an invite handler awaited has failed, the SIP
\* coordinator's map holds no SIPCall for the handle of that invite.
C39_FailedCreateLeavesNoHandle ==
  \A t \in 1 .. Len(tasks) :
    (/\ tasks[t].op = "createCall" /\ tasks[t].sip # 0
     /\ Done(t) /\ ~ Ok(t))
    => sipCalls[tasks[t].sip] = NoSip


\* C40: every updateCallStatus and endCall SIPHandler starts for a handle
\* names the identifier of a Call an invite of that handle created.
C40_HandleCallsNameItsCall ==
  \A t \in 1 .. Len(tasks) :
    (handlerOf[t] # 0 /\ tasks[t].op # "createCall")
    => \E c \in 1 .. t :
         /\ tasks[c].op = "createCall" /\ handlerOf[c] = handlerOf[t]
         /\ tasks[c].id = tasks[t].id


\* C31: when cleanupInactiveCalls returns, no SIPCall that was stale when the
\* sweep started remains, and the SIPCalls that were not stale are as they
\* were.
C31_SweepLeavesNoStale ==
  [][(reap'.op = "cleanupInactiveCalls" /\ reap.state # "done" /\ reap'.state = "done")
     => \A h \in Handles :
          /\ activeSIPCalls'[h] # NoSipCall => ~ StaleCall(activeSIPCalls', h, reap'.at)
          /\ (activeSIPCalls[h] # NoSipCall /\ ~ StaleCall(activeSIPCalls, h, reap'.at))
             => activeSIPCalls'[h] = activeSIPCalls[h]]_vars

\* C32: shutdown of SIPHandler returns without failing and leaves no SIPCall.
C32_ShutdownEmptiesHotSets ==
  [][(reap'.op = "shutdown" /\ reap.state \notin {"done", "failed"}
      /\ reap'.state \in {"done", "failed"})
     => /\ reap'.state = "done"
        /\ \A h \in Handles : activeSIPCalls'[h] = NoSipCall]_vars

====
